---- MODULE Spec2Model ----
(***************************************************************************)
(* State-machine model of samples/mcp-server/mcp_server_vscode.py: the     *)
(* Flask routes POST / (handle_mcp_request) and GET|DELETE /               *)
(* (handle_session_request), both wrapped by require_auth, sharing the     *)
(* process-wide dict `sessions`.                                           *)
(*                                                                         *)
(* Every in-flight HTTP request occupies one slot (a worker thread of the  *)
(* threaded development server).  A handler is cut into steps at the       *)
(* points where it reads or writes `sessions`; between two steps of one    *)
(* request any step of another request may run.                            *)
(*                                                                         *)
(* JSON values are encoded as records and strings:                         *)
(*   None     Python None / JSON null                                      *)
(*   Missing  a key (or header) that is not there                          *)
(*   a JSON value of a params entry is [kind |-> "missing" | "null" |      *)
(*   "array" | "map", ...]; only "map" has .get                            *)
(***************************************************************************)
EXTENDS Integers, FiniteSets, Sequences, Bags, TLC

\* ------------------------------------------------------------------ bounds

\* how many values uuid.uuid4() is asked for in one run of the process
MaxUuid == 2
\* how many requests the server handles at the same time
NumSlots == 2

Slots == 1..NumSlots

\* ------------------------------------------------------- values and config

None == "None"
Missing == "<missing>"

\* the mcp-session-id request header when the client sends none
NoSessionHeader == 0

\* what str(uuid.uuid4()) can return: the n-th call returns n
SessionIds == 1..MaxUuid

MCP_SERVER_URL == "http://localhost:3000"

ResourceMetadataUrl == <<MCP_SERVER_URL, "/.well-known/oauth-protected-resource">>

DefaultProtocolVersion == "2024-11-05"

EmptyMap == [k \in {} |-> "{}"]

\* values a client can give a capability key
EmptyObject == "{}"
ListChanged == "{listChanged: true}"

CapabilityKeys == {"tools", "prompts", "resources"}

\* Python truthiness of a JSON value (bool(v)): {} and null are falsy
Truthy(v) == v \notin {EmptyObject, None}

\* d.get(k) of a mapping d
DictGet(d, k) == IF k \in DOMAIN d THEN d[k] ELSE None

\* rpc_request.get(k) for the scalar members of the envelope
EnvelopeGet(v) == IF v = Missing THEN None ELSE v

\* --------------------------------------------------------- request inputs

\* Authorization header values: none, a non-Bearer scheme, a Bearer token
\* jwt.decode cannot decode, a Bearer token it decodes
NoAuthorization == [present |-> FALSE, prefix |-> "", token |-> ""]
BasicAuthorization == [present |-> TRUE, prefix |-> "Basic ", token |-> "dXNlcjpwdw=="]
GarbageBearer == [present |-> TRUE, prefix |-> "Bearer ", token |-> "not-a-jwt"]
GoodBearer == [present |-> TRUE, prefix |-> "Bearer ", token |-> "e30.e30.sig"]

AuthorizationHeaders == {NoAuthorization, BasicAuthorization, GarbageBearer, GoodBearer}

\* tokens jwt.decode(token, options={"verify_signature": False}) decodes
DecodableTokens == {"e30.e30.sig"}

\* params.capabilities values
Caps(kind, m) == [kind |-> kind, m |-> m]
CapsMissing == Caps("missing", EmptyMap)
CapsNull == Caps("null", EmptyMap)
CapsArray == Caps("array", EmptyMap)
CapsToolsOnly == Caps("map", [k \in {"tools"} |-> ListChanged])
CapsToolsEmpty == Caps("map", [k \in {"tools", "prompts"} |->
                                 IF k = "tools" THEN EmptyObject ELSE ListChanged])
CapsAll == Caps("map", [k \in CapabilityKeys |->
                          IF k = "resources" THEN EmptyObject ELSE ListChanged])

\* tools/call arguments: numbers and strings
Num(n) == [t |-> "num", n |-> n, s |-> ""]
Str(s) == [t |-> "str", n |-> 0, s |-> s]
NoneValue == [t |-> "none", n |-> 0, s |-> ""]
Args(kind, m) == [kind |-> kind, m |-> m]
ArgsMissing == Args("missing", EmptyMap)
ArgsNull == Args("null", EmptyMap)
ArgsAdd == Args("map", [k \in {"a", "b"} |-> IF k = "a" THEN Num(2) ELSE Num(3)])
ArgsMultiply == Args("map", [k \in {"x", "y"} |-> IF k = "x" THEN Num(4) ELSE Num(5)])
ArgsMixed == Args("map", [k \in {"a", "b"} |-> IF k = "a" THEN Str("2") ELSE Num(3)])

\* the params member of the envelope
Params(kind, pv, caps, ci, name, args) ==
    [kind |-> kind, protocolVersion |-> pv, capabilities |-> caps,
     clientInfo |-> ci, name |-> name, arguments |-> args]
ParamsOf(kind) == Params(kind, Missing, CapsMissing, Missing, Missing, ArgsMissing)
ParamsMissing == ParamsOf("missing")
ParamsNull == ParamsOf("null")
ParamsArray == ParamsOf("array")
InitParams(pv, caps, ci) == Params("map", pv, caps, ci, Missing, ArgsMissing)
CallParams(name, args) == Params("map", Missing, CapsMissing, Missing, name, args)

InitializeParams ==
    { ParamsMissing, ParamsNull, ParamsArray,
      InitParams("2025-03-26", CapsToolsOnly, "vscode"),
      InitParams(Missing, CapsMissing, Missing),
      InitParams("2025-03-26", CapsToolsEmpty, Missing),
      InitParams(None, CapsAll, "vscode"),
      InitParams(Missing, CapsArray, "vscode"),
      InitParams("2025-03-26", CapsNull, Missing) }

ToolsCallParams ==
    { ParamsMissing, ParamsNull,
      CallParams("add", ArgsAdd),
      CallParams("multiply", ArgsMultiply),
      CallParams("add", ArgsMixed),
      CallParams("add", ArgsNull),
      CallParams("divide", ArgsAdd) }

RpcMethods == {"initialize", "tools/list", "tools/call",
               "notifications/initialized", "resources/list"}

ParamsFor(method) ==
    CASE method = "initialize" -> InitializeParams
      [] method = "tools/call" -> ToolsCallParams
      [] OTHER -> {ParamsMissing}

SessionHeaders == {NoSessionHeader} \cup SessionIds

\* An HTTP request.  is_json is what the Content-Type says; bodyKind is
\* what the body holds: "malformed" (empty or not JSON), the JSON values
\* "null" and "array", or an "object" with the envelope members.
Request(hm, auth, isj, bk, jr, method, id, params, sid) ==
    [httpMethod |-> hm, authorization |-> auth, is_json |-> isj, bodyKind |-> bk,
     jsonrpc |-> jr, method |-> method, id |-> id, params |-> params, sid |-> sid]

NoRequest ==
    Request("", NoAuthorization, FALSE, "malformed", Missing, Missing, Missing,
            ParamsMissing, NoSessionHeader)

\* bodies that are not a JSON object: the envelope members do not exist
OtherBody(hm, auth, isj, bk, sid) ==
    Request(hm, auth, isj, bk, Missing, Missing, Missing, ParamsMissing, sid)

RpcIds == {Missing, None, "1"}

\* authenticated POST / with a JSON-RPC 2.0 envelope
EnvelopeRequests ==
    UNION { { Request("POST", GoodBearer, TRUE, "object", "2.0", m, id, p, sid) :
                id \in RpcIds, p \in ParamsFor(m), sid \in SessionHeaders } :
            m \in RpcMethods }

\* authenticated POST / that fails the framing checks
FramingRequests ==
    { OtherBody("POST", GoodBearer, isj, bk, sid) :
        isj \in BOOLEAN, bk \in {"malformed", "null", "array"}, sid \in SessionHeaders }
    \cup
    { Request("POST", GoodBearer, isj, "object", jr, m, id,
              InitParams("2025-03-26", CapsToolsOnly, "vscode"), sid) :
        isj \in BOOLEAN, jr \in {"1.0", Missing, "2.0"},
        m \in {"initialize", "tools/list"}, id \in {None, "1"}, sid \in SessionHeaders }

\* authenticated GET / and DELETE /
SessionRequests ==
    { OtherBody(hm, GoodBearer, FALSE, "malformed", sid) :
        hm \in {"GET", "DELETE"}, sid \in SessionHeaders }

\* requests the Bearer gate rejects
UnauthorizedRequests ==
    { OtherBody(hm, auth, isj, bk, sid) :
        hm \in {"POST", "GET", "DELETE"},
        auth \in AuthorizationHeaders \ {GoodBearer},
        isj \in BOOLEAN, bk \in {"malformed", "null", "array"},
        sid \in {NoSessionHeader, 1} }
    \cup
    { Request(hm, auth, TRUE, "object", "2.0", "initialize", id,
              InitParams("2025-03-26", CapsToolsOnly, "vscode"), sid) :
        hm \in {"POST", "GET", "DELETE"},
        auth \in AuthorizationHeaders \ {GoodBearer},
        id \in {Missing, "1"}, sid \in {NoSessionHeader, 1} }

\* every request the sequential specification sends
Requests ==
    EnvelopeRequests \cup FramingRequests \cup SessionRequests \cup UnauthorizedRequests

\* the session the concurrent requests contend for: the first one created
ContendedIds == {1}

\* the requests the concurrent specification races against each other
ConcurrentRequests ==
    { Request("POST", GoodBearer, TRUE, "object", "2.0", "initialize", "1",
              InitParams("2025-03-26", CapsToolsOnly, "vscode"), NoSessionHeader) }
    \cup
    { Request("POST", GoodBearer, TRUE, "object", "2.0", "tools/list", "1",
              ParamsMissing, sid) : sid \in ContendedIds }
    \cup
    { Request("POST", GoodBearer, TRUE, "object", "2.0", "notifications/initialized",
              Missing, ParamsMissing, NoSessionHeader) }
    \cup
    { OtherBody("DELETE", GoodBearer, FALSE, "malformed", sid) : sid \in ContendedIds }
    \cup
    { OtherBody("GET", GoodBearer, FALSE, "malformed", NoSessionHeader) }

\* -------------------------------------------------------------- responses

NoChallenge == [error |-> "", description |-> "", resource_metadata |-> <<>>]
NoResult == [tag |-> "none"]

Response(status, body, code, id, result, hdr, www) ==
    [status |-> status, body |-> body, code |-> code, id |-> id, result |-> result,
     session_hdr |-> hdr, www_authenticate |-> www]

NoResponse == Response(0, "", 0, None, NoResult, NoSessionHeader, NoChallenge)

\* jsonify({"jsonrpc": "2.0", "error": {"code": code, ...}, "id": id}), status
JsonRpcError(status, code, id) ==
    Response(status, "jsonrpc_error", code, id, NoResult, NoSessionHeader, NoChallenge)

\* mutant: response.headers["mcp-session-id"] is never set
JsonRpcResult_NoHeader(result, id, hdr) ==
    Response(200, "jsonrpc_result", 0, id, result, NoSessionHeader, NoChallenge)

\* jsonify({"jsonrpc": "2.0", "result": result, "id": id}) with the header set
JsonRpcResult(result, id, hdr) ==
    Response(200, "jsonrpc_result", 0, id, result, hdr, NoChallenge)

\* the response Flask makes of an exception no handler catches:
\* an HTTPException keeps its own status, anything else is a 500
Unhandled(exc) ==
    Response(IF exc = "BadRequest" THEN 400 ELSE 500, "html_error", 0, None,
             [tag |-> exc], NoSessionHeader, NoChallenge)

\* ------------------------------------------------------------ Bearer gate

\* validate_bearer_token: the error it returns, "" when it returns claims
validate_bearer_token(token) ==
    IF ~token.present \/ token.prefix # "Bearer "
    THEN "Invalid Authorization header format"
    ELSE IF token.token \in DecodableTokens THEN "" ELSE "Token decode error"

\* `not auth_header`: the header is absent or empty
AuthHeaderMissing(h) == ~h.present \/ (h.prefix = "" /\ h.token = "")

\* request.json, evaluated where request.is_json holds: the exception it or
\* the .get on its value raises, "" when the value is a mapping
RequestJsonFault(r) ==
    CASE r.bodyKind = "malformed" -> "BadRequest"
      [] r.bodyKind \in {"null", "array"} -> "AttributeError"
      [] OTHER -> ""

\* the 401 of require_auth, or what Flask answers when building it raises
Unauthorized(r, error) ==
    LET id == IF r.is_json THEN EnvelopeGet(r.id) ELSE None
        www == IF error = ""
               THEN [error |-> "", description |-> "",
                     resource_metadata |-> ResourceMetadataUrl]
               ELSE [error |-> "invalid_token", description |-> error,
                     resource_metadata |-> ResourceMetadataUrl]
    IN  IF r.is_json /\ RequestJsonFault(r) # ""
        THEN Unhandled(RequestJsonFault(r))
        ELSE Response(401, "jsonrpc_error", -32001, id, NoResult, NoSessionHeader, www)

\* ------------------------------------------------------- method handlers

\* rpc_request.get("params", {})
RpcParams(r) == IF r.params.kind = "missing" THEN ParamsOf("map") ELSE r.params

\* mutant: the server answers with its own version whatever the client sent
ClientProtocolVersion_ServerDefault(params) == DefaultProtocolVersion

\* params.get("protocolVersion", "2024-11-05")
ClientProtocolVersion(params) ==
    IF params.protocolVersion = Missing THEN DefaultProtocolVersion
    ELSE params.protocolVersion

\* params.get("capabilities", {})
ClientCapabilities(params) ==
    IF params.capabilities.kind = "missing" THEN Caps("map", EmptyMap)
    ELSE params.capabilities

\* params.get("clientInfo", {})
ClientInfo(params) == IF params.clientInfo = Missing THEN "{}" ELSE params.clientInfo

\* the record handle_initialize stores
SessionRecord(params) ==
    [initialized |-> TRUE,
     protocol_version |-> ClientProtocolVersion(params),
     capabilities |-> ClientCapabilities(params),
     client_info |-> ClientInfo(params)]

\* {} if client_capabilities.get(k) else None
AdvertisedCapability(client_capabilities, k) ==
    IF Truthy(DictGet(client_capabilities.m, k)) THEN EmptyObject ELSE None

\* the result handle_initialize returns
InitializeResult(params) ==
    [tag |-> "initialize",
     protocolVersion |-> ClientProtocolVersion(params),
     capabilities |-> [k \in CapabilityKeys |->
                         AdvertisedCapability(ClientCapabilities(params), k)],
     serverInfo |-> <<"thunder-mcp-server", "1.0.0">>]

\* mutant: the id is derived from the size of the store, str(len(sessions) + 1)
NewSessionId_FromStoreSize(store, n) == Cardinality(DOMAIN store) + 1

\* str(uuid.uuid4()): a value no earlier call returned; n counts the calls
NewSessionId(store, n) == n

\* mutant: sessions = {session_id: record}
StoreSession_Rebinds(store, id, record) == [k \in {id} |-> record]

\* sessions[session_id] = record
StoreSession(store, id, record) ==
    [k \in DOMAIN store \cup {id} |-> IF k = id THEN record ELSE store[k]]

\* mutant: the del is forgotten
DeleteSession_Forgotten(store, id) == store

\* del sessions[session_id]
DeleteSession(store, id) == [k \in DOMAIN store \ {id} |-> store[k]]

\* mutant: multiply is not listed
handle_tools_list_AddOnly == [tag |-> "tools", tools |-> <<"add">>]

\* handle_tools_list
handle_tools_list == [tag |-> "tools", tools |-> <<"add", "multiply">>]

\* arguments.get(k, 0) and arguments.get(k)
ArgOr0(arguments, k) == IF k \in DOMAIN arguments.m THEN arguments.m[k] ELSE Num(0)
ArgOrNone(arguments, k) == IF k \in DOMAIN arguments.m THEN arguments.m[k] ELSE NoneValue

RECURSIVE Repeat(_, _)
Repeat(str, n) == IF n <= 0 THEN "" ELSE str \o Repeat(str, n - 1)

\* a + b: [exc, value]
PyAdd(a, b) ==
    CASE a.t = "num" /\ b.t = "num" -> [exc |-> "", value |-> Num(a.n + b.n)]
      [] a.t = "str" /\ b.t = "str" -> [exc |-> "", value |-> Str(a.s \o b.s)]
      [] OTHER -> [exc |-> "TypeError", value |-> NoneValue]

\* x * y: [exc, value]
PyMul(x, y) ==
    CASE x.t = "num" /\ y.t = "num" -> [exc |-> "", value |-> Num(x.n * y.n)]
      [] x.t = "str" /\ y.t = "num" -> [exc |-> "", value |-> Str(Repeat(x.s, y.n))]
      [] x.t = "num" /\ y.t = "str" -> [exc |-> "", value |-> Str(Repeat(y.s, x.n))]
      [] OTHER -> [exc |-> "TypeError", value |-> NoneValue]

\* handle_tools_call: [exc, result]
handle_tools_call(tool_name, arguments) ==
    LET content(op, l, r, v) ==
            [tag |-> "content", op |-> op, lhs |-> ArgOrNone(arguments, l),
             rhs |-> ArgOrNone(arguments, r), value |-> v]
        sum == PyAdd(ArgOr0(arguments, "a"), ArgOr0(arguments, "b"))
        product == PyMul(ArgOr0(arguments, "x"), ArgOr0(arguments, "y"))
    IN  CASE tool_name \in {"add", "multiply"} /\ arguments.kind # "map" ->
               [exc |-> "AttributeError", result |-> NoResult]
          [] tool_name = "add" /\ arguments.kind = "map" ->
               [exc |-> sum.exc,
                result |-> IF sum.exc = "" THEN content("+", "a", "b", sum.value)
                           ELSE NoResult]
          [] tool_name = "multiply" /\ arguments.kind = "map" ->
               [exc |-> product.exc,
                result |-> IF product.exc = "" THEN content("x", "x", "y", product.value)
                           ELSE NoResult]
          [] OTHER -> [exc |-> "ValueError", result |-> NoResult]

\* the branch `elif method == "tools/call"`: [exc, result]
ToolsCall(params) ==
    IF params.kind # "map" THEN [exc |-> "AttributeError", result |-> NoResult]
    ELSE handle_tools_call(params.name,
                           IF params.arguments.kind = "missing"
                           THEN Args("map", EmptyMap) ELSE params.arguments)

\* mutant: only notifications/initialized is taken as a notification
IsNotification_KnownOnly(request_id, method) ==
    request_id = None /\ method = "notifications/initialized"

\* mutant: initialize is routed before the notification test
IsNotification_AfterInitialize(request_id, method) ==
    request_id = None /\ method # "initialize"

\* if request_id is None
IsNotification(request_id, method) == request_id = None

\* mutant: only the presence of the header is tested
NoValidSession_HeaderOnly(session_id, store) == session_id = NoSessionHeader

\* if not session_id or session_id not in sessions
NoValidSession(session_id, store) ==
    session_id = NoSessionHeader \/ session_id \notin DOMAIN store

\* if session_id and session_id in sessions
SessionExists(session_id, store) ==
    session_id # NoSessionHeader /\ session_id \in DOMAIN store

\* the request reaches handle_initialize and draws a uuid there
DrawsUuid(r) ==
    /\ r.httpMethod = "POST"
    /\ validate_bearer_token(r.authorization) = ""
    /\ r.is_json /\ r.bodyKind = "object" /\ r.jsonrpc = "2.0"
    /\ ~IsNotification(EnvelopeGet(r.id), r.method)
    /\ r.method = "initialize"

\* ------------------------------------------------------------------ state

VARIABLES
    sessions,        \* the dict `sessions`: session id -> record
    uuidCalls,       \* how many times uuid.uuid4() has been called
    pc,              \* per slot: where the request's handler stands
    req,             \* per slot: the request being handled
    resp,            \* per slot: the response built (sent once pc = "Responded")
    new_session_id,  \* per slot: handle_initialize's local session_id
    before,          \* per slot: `sessions` as the request found it, when it
                     \* arrived with no other request in flight
    created,         \* the ids handle_initialize stored a record under, in order
    returned,        \* the bag of ids successful initialize responses carried
    deleted          \* ids a DELETE has answered 204 for

vars ==
    <<sessions, uuidCalls, pc, req, resp, new_session_id, before, created, returned,
      deleted>>

EmptyStore == [k \in {} |-> SessionRecord(ParamsOf("map"))]

Init ==
    /\ sessions = EmptyStore
    /\ uuidCalls = 0
    /\ pc = [s \in Slots |-> "idle"]
    /\ req = [s \in Slots |-> NoRequest]
    /\ resp = [s \in Slots |-> NoResponse]
    /\ new_session_id = [s \in Slots |-> NoSessionHeader]
    /\ before = [s \in Slots |-> EmptyStore]
    /\ created = <<>>
    /\ returned = EmptyBag
    /\ deleted = {}

\* no request is in flight
Quiescent == \A t \in Slots : pc[t] = "idle"

\* requests in flight that have yet to draw their uuid
PendingDraws ==
    Cardinality({t \in Slots : pc[t] \in {"Received", "AuthChecked", "Parsed"}
                                /\ DrawsUuid(req[t])})

\* the handler returns `response` (or Flask answers for it)
Return(s, response) ==
    /\ pc' = [pc EXCEPT ![s] = "Responded"]
    /\ resp' = [resp EXCEPT ![s] = response]

\* the handler moves on to `label`
Goto(s, label) ==
    /\ pc' = [pc EXCEPT ![s] = label]
    /\ UNCHANGED resp

\* ---------------------------------------------------------------- actions

\* a request arrives and is given the lowest free worker
Receive(s, r) ==
    /\ pc[s] = "idle"
    /\ \A t \in Slots : t < s => pc[t] # "idle"
    /\ DrawsUuid(r) => uuidCalls + PendingDraws < MaxUuid
    /\ pc' = [pc EXCEPT ![s] = "Received"]
    /\ req' = [req EXCEPT ![s] = r]
    /\ before' = [before EXCEPT ![s] = IF Quiescent THEN sessions ELSE EmptyStore]
    /\ UNCHANGED <<sessions, uuidCalls, resp, new_session_id, created, returned, deleted>>

\* one request at a time, any request
ReceiveAlone(s) ==
    /\ Quiescent
    /\ \E r \in Requests : Receive(s, r)

\* requests overlap
ReceiveConcurrent(s) ==
    \E r \in ConcurrentRequests : Receive(s, r)

\* require_auth.decorated_function
RequireAuth(s) ==
    LET r == req[s]
        error == validate_bearer_token(r.authorization)
        \* print(f"... RPC method: {request.json.get('method', 'unknown')}")
        logFault == IF r.is_json THEN RequestJsonFault(r) ELSE ""
    IN  /\ pc[s] = "Received"
        /\ IF AuthHeaderMissing(r.authorization) THEN Return(s, Unauthorized(r, ""))
           ELSE IF error # ""
                THEN IF logFault # "" THEN Return(s, Unhandled(logFault))
                     ELSE Return(s, Unauthorized(r, error))
                ELSE Goto(s, "AuthChecked")
        /\ UNCHANGED <<sessions, uuidCalls, req, new_session_id, before, created, returned,
                       deleted>>

\* handle_mcp_request up to the try block: the framing checks
ParseEnvelope(s) ==
    LET r == req[s]
    IN  /\ pc[s] = "AuthChecked"
        /\ r.httpMethod = "POST"
        /\ IF ~r.is_json THEN Return(s, JsonRpcError(400, -32700, None))
           ELSE IF RequestJsonFault(r) # "" THEN Return(s, Unhandled(RequestJsonFault(r)))
           ELSE IF EnvelopeGet(r.jsonrpc) # "2.0"
                THEN Return(s, JsonRpcError(400, -32600, EnvelopeGet(r.id)))
           ELSE Goto(s, "Parsed")
        /\ UNCHANGED <<sessions, uuidCalls, req, new_session_id, before, created, returned,
                       deleted>>

\* the notification branch: jsonify({}), 200
HandleNotification(s) ==
    LET r == req[s]
    IN  /\ pc[s] = "Parsed"
        /\ IsNotification(EnvelopeGet(r.id), r.method)
        /\ pc' = [pc EXCEPT ![s] = "NotificationHandled"]
        /\ resp' = [resp EXCEPT ![s] =
                      Response(200, "empty_object", 0, None, NoResult, NoSessionHeader,
                               NoChallenge)]
        /\ UNCHANGED <<sessions, uuidCalls, req, new_session_id, before, created, returned,
                       deleted>>

\* handle_initialize, first half: draw the id and store the record
InitializeCreate(s) ==
    LET r == req[s]
        params == RpcParams(r)
        id == NewSessionId(sessions, uuidCalls + 1)
    IN  /\ pc[s] = "Parsed"
        /\ ~IsNotification(EnvelopeGet(r.id), r.method)
        /\ r.method = "initialize"
        /\ uuidCalls' = uuidCalls + 1
        /\ IF params.kind # "map"
           THEN /\ Return(s, JsonRpcError(500, -32603, EnvelopeGet(r.id)))
                /\ UNCHANGED <<sessions, new_session_id, created>>
           ELSE /\ sessions' = StoreSession(sessions, id, SessionRecord(params))
                /\ new_session_id' = [new_session_id EXCEPT ![s] = id]
                /\ created' = Append(created, id)
                /\ Goto(s, "SessionResolved")
        /\ UNCHANGED <<req, before, returned, deleted>>

\* handle_initialize, second half, and the response of the initialize branch
InitializeReply(s) ==
    LET r == req[s]
        params == RpcParams(r)
    IN  /\ pc[s] = "SessionResolved"
        /\ r.method = "initialize"
        /\ IF ClientCapabilities(params).kind # "map"
           THEN Return(s, JsonRpcError(500, -32603, EnvelopeGet(r.id)))
           ELSE /\ pc' = [pc EXCEPT ![s] = "MethodInvoked"]
                /\ resp' = [resp EXCEPT ![s] =
                              JsonRpcResult(InitializeResult(params), EnvelopeGet(r.id),
                                            new_session_id[s])]
        /\ UNCHANGED <<sessions, uuidCalls, req, new_session_id, before, created, returned,
                       deleted>>

\* mutant: a request without a valid session waits for the session to appear
ResolveSession_Waits(s) ==
    LET r == req[s]
    IN  /\ pc[s] = "Parsed"
        /\ ~IsNotification(EnvelopeGet(r.id), r.method)
        /\ r.method # "initialize"
        /\ ~NoValidSession(r.sid, sessions)
        /\ Goto(s, "SessionResolved")
        /\ UNCHANGED <<sessions, uuidCalls, req, new_session_id, before, created, returned,
                       deleted>>

\* the session check of every other method
ResolveSession(s) ==
    LET r == req[s]
    IN  /\ pc[s] = "Parsed"
        /\ ~IsNotification(EnvelopeGet(r.id), r.method)
        /\ r.method # "initialize"
        /\ IF NoValidSession(r.sid, sessions)
           THEN Return(s, JsonRpcError(400, -32000, EnvelopeGet(r.id)))
           ELSE Goto(s, "SessionResolved")
        /\ UNCHANGED <<sessions, uuidCalls, req, new_session_id, before, created, returned,
                       deleted>>

\* the routing to handle_tools_list / handle_tools_call
InvokeMethod(s) ==
    LET r == req[s]
        id == EnvelopeGet(r.id)
        call == ToolsCall(RpcParams(r))
        invoked(result) ==
            /\ pc' = [pc EXCEPT ![s] = "MethodInvoked"]
            /\ resp' = [resp EXCEPT ![s] = JsonRpcResult(result, id, r.sid)]
    IN  /\ pc[s] = "SessionResolved"
        /\ r.method # "initialize"
        /\ IF r.method = "tools/list" THEN invoked(handle_tools_list)
           ELSE IF r.method = "tools/call"
                THEN IF call.exc # "" THEN Return(s, JsonRpcError(500, -32603, id))
                     ELSE invoked(call.result)
           ELSE Return(s, JsonRpcError(400, -32601, id))
        /\ UNCHANGED <<sessions, uuidCalls, req, new_session_id, before, created, returned,
                       deleted>>

\* return response
Respond(s) ==
    /\ pc[s] \in {"NotificationHandled", "MethodInvoked"}
    /\ pc' = [pc EXCEPT ![s] = "Responded"]
    /\ returned' = IF resp[s].result.tag = "initialize"
                   THEN returned (+) SetToBag({resp[s].session_hdr}) ELSE returned
    /\ UNCHANGED <<sessions, uuidCalls, req, resp, new_session_id, before, created,
                   deleted>>

\* handle_session_request, DELETE: the membership test
SessionDeleteCheck(s) ==
    LET r == req[s]
    IN  /\ pc[s] = "AuthChecked"
        /\ r.httpMethod = "DELETE"
        /\ IF SessionExists(r.sid, sessions) THEN Goto(s, "DeleteChecked")
           ELSE Return(s, Response(404, "", 0, None, NoResult, NoSessionHeader,
                                   NoChallenge))
        /\ UNCHANGED <<sessions, uuidCalls, req, new_session_id, before, created, returned,
                       deleted>>

\* handle_session_request, DELETE: del sessions[session_id]
SessionDeleteRemove(s) ==
    LET r == req[s]
    IN  /\ pc[s] = "DeleteChecked"
        /\ IF r.sid \in DOMAIN sessions
           THEN /\ sessions' = DeleteSession(sessions, r.sid)
                /\ deleted' = deleted \cup {r.sid}
                /\ Return(s, Response(204, "", 0, None, NoResult, NoSessionHeader,
                                      NoChallenge))
           ELSE /\ Return(s, Unhandled("KeyError"))
                /\ UNCHANGED <<sessions, deleted>>
        /\ UNCHANGED <<uuidCalls, req, new_session_id, before, created, returned>>

\* handle_session_request, GET
SessionGet(s) ==
    LET r == req[s]
    IN  /\ pc[s] = "AuthChecked"
        /\ r.httpMethod = "GET"
        /\ Return(s, Response(200, "status_ok", 0, None,
                              [tag |-> "status", session_id |-> r.sid],
                              NoSessionHeader, NoChallenge))
        /\ UNCHANGED <<sessions, uuidCalls, req, new_session_id, before, created, returned,
                       deleted>>

\* the response has gone out; the worker is free again
Complete(s) ==
    /\ pc[s] = "Responded"
    /\ pc' = [pc EXCEPT ![s] = "idle"]
    /\ req' = [req EXCEPT ![s] = NoRequest]
    /\ resp' = [resp EXCEPT ![s] = NoResponse]
    /\ new_session_id' = [new_session_id EXCEPT ![s] = NoSessionHeader]
    /\ before' = [before EXCEPT ![s] = EmptyStore]
    /\ UNCHANGED <<sessions, uuidCalls, created, returned, deleted>>

\* one step of the handler of the request in slot s
Handle(s) ==
    \/ RequireAuth(s)
    \/ ParseEnvelope(s)
    \/ HandleNotification(s)
    \/ InitializeCreate(s)
    \/ InitializeReply(s)
    \/ ResolveSession(s)
    \/ InvokeMethod(s)
    \/ Respond(s)
    \/ SessionDeleteCheck(s)
    \/ SessionDeleteRemove(s)
    \/ SessionGet(s)
    \/ Complete(s)

\* requests handled one after the other
Next == \E s \in Slots : ReceiveAlone(s) \/ Handle(s)

Spec == Init /\ [][Next]_vars

\* requests handled concurrently
NextConcurrent == \E s \in Slots : ReceiveConcurrent(s) \/ Handle(s)

SpecConcurrent == Init /\ [][NextConcurrent]_vars

\* requests overlap; a client opens a session only when the server holds
\* none and none is being opened
ReceiveFair(s) ==
    \E r \in ConcurrentRequests :
        /\ DrawsUuid(r) => sessions = EmptyStore /\ PendingDraws = 0
        /\ Receive(s, r)

NextFair == \E s \in Slots : ReceiveFair(s) \/ Handle(s)

\* requests handled concurrently, each by a thread of its own that the
\* scheduler does not starve
SpecFair ==
    Init /\ [][NextFair]_vars /\ \A s \in Slots : WF_vars(Handle(s))

\* the requests of the POST-against-DELETE race: the concurrent ones and a
\* tools/call on the contended session
RaceRequests ==
    ConcurrentRequests
    \cup
    { Request("POST", GoodBearer, TRUE, "object", "2.0", "tools/call", "1",
              CallParams("add", ArgsAdd), sid) : sid \in ContendedIds }

\* a DELETE is in flight on session_id
DeleteInFlight(session_id) ==
    \E t \in Slots : /\ pc[t] \notin {"idle", "Responded"}
                     /\ req[t].httpMethod = "DELETE" /\ req[t].sid = session_id

\* requests overlap; a client sends DELETE for a session that is live, and
\* no two DELETE requests for one session overlap
ReceiveRace(s) ==
    \E r \in RaceRequests :
        /\ r.httpMethod = "DELETE" =>
               SessionExists(r.sid, sessions) /\ ~DeleteInFlight(r.sid)
        /\ Receive(s, r)

\* session-requiring POSTs racing with the one DELETE of their session
NextRace == \E s \in Slots : ReceiveRace(s) \/ Handle(s)

SpecRace == Init /\ [][NextRace]_vars

\* ----------------------------------------------------- claim vocabulary

\* the response of slot s has been sent
Sent(s) == pc[s] = "Responded"

\* r passes the Bearer gate
Authenticated(r) ==
    r.authorization.present /\ r.authorization.prefix = "Bearer "
    /\ r.authorization.token \in DecodableTokens

\* r is a POST / whose body is a JSON-RPC 2.0 envelope
Envelope20(r) ==
    r.httpMethod = "POST" /\ r.is_json /\ r.bodyKind = "object" /\ r.jsonrpc = "2.0"

\* the ids handle_initialize has stored so far
Created == { created[i] : i \in 1..Len(created) }

\* handling r raises in a handler: initialize or tools/call
\* with params that are not a mapping, initialize with capabilities that
\* are not a mapping, tools/call with an unknown tool or operands that do
\* not add or multiply
Raises(r) ==
    \/ /\ r.method = "initialize"
       /\ \/ RpcParams(r).kind # "map"
          \/ ClientCapabilities(RpcParams(r)).kind # "map"
    \/ r.method = "tools/call" /\ ToolsCall(RpcParams(r)).exc # ""

\* the transitions of the dispatcher's state machine: the path of a POST
\* and, from every state before the response, the error exit
DispatcherSteps ==
    { <<"Received", "AuthChecked">>, <<"AuthChecked", "Parsed">>,
      <<"Parsed", "NotificationHandled">>, <<"NotificationHandled", "Responded">>,
      <<"Parsed", "SessionResolved">>, <<"SessionResolved", "MethodInvoked">>,
      <<"MethodInvoked", "Responded">>, <<"Responded", "idle">> }
    \cup
    { <<from, "Responded">> : from \in {"Received", "AuthChecked", "Parsed", "SessionResolved"} }

\* no request is being handled (every one received has been answered)
AtRest == \A s \in Slots : pc[s] \in {"idle", "Responded"}

\* ------------------------------------------------------------------ claims

\* C1: every request whose Authorization header is absent is answered 401
\* with JSON-RPC error -32001 and a WWW-Authenticate header naming the
\* protected-resource metadata URL, whatever the method and the body.
C1_MissingAuthorizationIs401 ==
    \A s \in Slots :
        Sent(s) /\ ~req[s].authorization.present =>
            /\ resp[s].status = 401
            /\ resp[s].body = "jsonrpc_error" /\ resp[s].code = -32001
            /\ resp[s].www_authenticate.resource_metadata = ResourceMetadataUrl

\* C2: an authenticated POST with a 2.0 envelope, a non-null id and a method
\* other than initialize, whose mcp-session-id is absent or not in the store,
\* is answered -32000 with HTTP 400 and the request id, for every method.
C2_NoSessionIsMinus32000 ==
    \A s \in Slots :
        ( /\ Sent(s) /\ Authenticated(req[s]) /\ Envelope20(req[s])
          /\ req[s].id \notin {Missing, None}
          /\ req[s].method # "initialize"
          /\ (req[s].sid = NoSessionHeader \/ req[s].sid \notin DOMAIN before[s]) )
        => /\ resp[s].status = 400
           /\ resp[s].body = "jsonrpc_error" /\ resp[s].code = -32000
           /\ resp[s].id = req[s].id
           /\ sessions = before[s]

\* C2 witness: tools/call with params that would raise, and an unknown
\* method, both sent with a session id the store does not hold
C2_Witness ==
    \E s \in Slots :
        /\ Sent(s) /\ Authenticated(req[s]) /\ Envelope20(req[s])
        /\ req[s].method \in {"tools/call", "resources/list"}
        /\ req[s].id = "1"
        /\ req[s].sid \in SessionIds /\ req[s].sid \notin DOMAIN before[s]
        /\ before[s] # EmptyStore
        /\ resp[s].code = -32000

\* C3: whenever no request is being handled, the ids in the store are the
\* ids successful initialize responses returned minus the ids DELETE
\* answered 204 for.
C3_StoreIsReturnedMinusDeleted ==
    AtRest => DOMAIN sessions = BagToSet(returned) \ deleted

\* C4: an initialize request that ends in an error response leaves the
\* store as it found it.
C4_FailedInitializeLeavesNoSession ==
    \A s \in Slots :
        ( /\ Sent(s) /\ req[s].httpMethod = "POST" /\ req[s].method = "initialize"
          /\ resp[s].body = "jsonrpc_error" )
        => sessions = before[s]

\* C5: the ids initialize returns are pairwise distinct, also across
\* create/delete cycles and concurrent initialize calls: no id is stored
\* twice, no id is returned twice, and the ids creates in flight hold are
\* distinct from each other and from every id returned before.
C5_SessionIdsDistinct ==
    /\ \A id \in BagToSet(returned) : CopiesIn(id, returned) = 1
    /\ \A i, j \in DOMAIN created : i # j => created[i] # created[j]
    /\ \A s, t \in Slots :
          ( /\ s # t
            /\ new_session_id[s] # NoSessionHeader
            /\ new_session_id[t] # NoSessionHeader )
          => new_session_id[s] # new_session_id[t]
    /\ \A s \in Slots :
          pc[s] \in {"SessionResolved", "MethodInvoked"} /\ req[s].method = "initialize"
          => new_session_id[s] \notin BagToSet(returned)

\* C5 witness: two initialize calls are between their create and their
\* response at the same time
C5_Witness ==
    \E s, t \in Slots :
        /\ s # t
        /\ pc[s] = "SessionResolved" /\ req[s].method = "initialize"
        /\ pc[t] = "MethodInvoked" /\ req[t].method = "initialize"

\* C6: handled one after the other, an authenticated DELETE with a session
\* id in the store answers 204 and removes exactly that record; with an
\* absent or unknown id it answers 404 and leaves the store unchanged; a
\* deleted id is in the store no more, so later requests naming it get
\* -32000 (POST) or 404 (DELETE).
C6_DeleteRemovesExactlyThatSession ==
    /\ deleted \cap DOMAIN sessions = {}
    /\ \A s \in Slots :
          Sent(s) /\ Authenticated(req[s]) /\ req[s].httpMethod = "DELETE" =>
              IF req[s].sid # NoSessionHeader /\ req[s].sid \in DOMAIN before[s]
              THEN /\ resp[s].status = 204
                   /\ DOMAIN sessions = DOMAIN before[s] \ {req[s].sid}
                   /\ \A k \in DOMAIN sessions : sessions[k] = before[s][k]
              ELSE /\ resp[s].status = 404
                   /\ sessions = before[s]
    /\ \A s \in Slots :
          ( /\ Sent(s) /\ Authenticated(req[s]) /\ Envelope20(req[s])
            /\ req[s].id \notin {Missing, None} /\ req[s].method # "initialize"
            /\ req[s].sid \in deleted )
          => resp[s].code = -32000

\* C6 witness: a second DELETE of a session deleted before answers 404
C6_Witness ==
    \E s \in Slots :
        /\ Sent(s) /\ req[s].httpMethod = "DELETE"
        /\ req[s].sid \in deleted
        /\ resp[s].status = 404
        /\ sessions # EmptyStore

\* C7: concurrent DELETE requests all end with 204 or 404.
C7_ConcurrentDeleteIs204Or404 ==
    \A s \in Slots :
        Sent(s) /\ Authenticated(req[s]) /\ req[s].httpMethod = "DELETE"
        => resp[s].status \in {204, 404}

\* C8: an authenticated POST with a 2.0 envelope whose id is absent or null
\* is answered HTTP 200 with an empty payload, never a JSON-RPC error,
\* whatever the method and the mcp-session-id header.
C8_NotificationIsEmpty200 ==
    \A s \in Slots :
        ( /\ Sent(s) /\ Authenticated(req[s]) /\ Envelope20(req[s])
          /\ req[s].id \in {Missing, None} )
        => /\ resp[s].status = 200
           /\ resp[s].body = "empty_object"
           /\ resp[s].code = 0

\* C8 witness: an id-less tools/call without session header is acknowledged
C8_Witness ==
    \E s \in Slots :
        /\ Sent(s) /\ Authenticated(req[s]) /\ Envelope20(req[s])
        /\ req[s].id = None /\ req[s].method = "tools/call"
        /\ req[s].sid = NoSessionHeader
        /\ resp[s].status = 200

\* what the client sent as protocolVersion, or the default
C9_Expected(r) ==
    IF r.params.kind = "map" /\ r.params.protocolVersion # Missing
    THEN r.params.protocolVersion ELSE "2024-11-05"

\* C9: a successful initialize returns the client's protocolVersion verbatim
\* (or "2024-11-05"), stores a record with that version and the client's
\* capabilities and clientInfo as received, under the id of the
\* mcp-session-id response header, which was not in the store before.
C9_InitializeEchoesAndStores ==
    \A s \in Slots :
        Sent(s) /\ resp[s].result.tag = "initialize" =>
            LET r == req[s]
                id == resp[s].session_hdr
            IN  /\ resp[s].result.protocolVersion = C9_Expected(r)
                /\ id \notin DOMAIN before[s]
                /\ id \in DOMAIN sessions
                /\ sessions[id].protocol_version = C9_Expected(r)
                /\ r.params.kind = "map" /\ r.params.capabilities.kind # "missing"
                   => sessions[id].capabilities = r.params.capabilities
                /\ r.params.kind = "map" /\ r.params.clientInfo # Missing
                   => sessions[id].client_info = r.params.clientInfo

\* C9 witness: a successful initialize that sent its own protocolVersion
C9_Witness ==
    \E s \in Slots :
        /\ Sent(s) /\ resp[s].result.tag = "initialize"
        /\ req[s].params.protocolVersion = "2025-03-26"
        /\ req[s].params.clientInfo = "vscode"
        /\ before[s] # EmptyStore

\* C10: in a successful initialize result, capabilities.k is an empty
\* object if and only if the client declared the key k, whatever its value,
\* and null if and only if it did not.
C10_CapabilitiesMirrorDeclaredKeys ==
    \A s \in Slots :
        Sent(s) /\ resp[s].result.tag = "initialize" =>
            \A k \in CapabilityKeys :
                LET declared == /\ req[s].params.kind = "map"
                                /\ k \in DOMAIN req[s].params.capabilities.m
                IN  /\ resp[s].result.capabilities[k] = EmptyObject <=> declared
                    /\ resp[s].result.capabilities[k] = None <=> ~declared

\* C11: every success response to a non-notification POST / carries an
\* mcp-session-id header: after initialize the id of the session just
\* created, after tools/list and tools/call the request's own
\* mcp-session-id, which the store held; notification responses and error
\* responses carry none.
C11_SessionHeaderOnSuccessOnly ==
    \A s \in Slots :
        Sent(s) /\ req[s].httpMethod = "POST" =>
            IF resp[s].body = "jsonrpc_result"
            THEN /\ resp[s].session_hdr # NoSessionHeader
                 /\ req[s].method = "initialize" =>
                        /\ resp[s].session_hdr = created[Len(created)]
                        /\ resp[s].session_hdr \in DOMAIN sessions \ DOMAIN before[s]
                 /\ req[s].method # "initialize" =>
                        /\ req[s].method \in {"tools/list", "tools/call"}
                        /\ resp[s].session_hdr = req[s].sid
                        /\ req[s].sid \in DOMAIN before[s]
            ELSE resp[s].session_hdr = NoSessionHeader

\* C11 witness: a tools/call answered with a result on the second session
C11_Witness ==
    \E s \in Slots :
        /\ Sent(s) /\ req[s].method = "tools/call"
        /\ resp[s].body = "jsonrpc_result"
        /\ resp[s].session_hdr = 2

\* C12: the Bearer gate comes before any session logic on POST, GET and
\* DELETE: a request whose Authorization header is missing, does not start
\* with "Bearer " or carries an undecodable token is answered 401 without
\* going past the gate, and the store is as it was (an unauthenticated
\* initialize creates nothing, an unauthenticated DELETE removes nothing).
C12_UnauthenticatedIs401AndTouchesNothing ==
    \A s \in Slots :
        req[s] # NoRequest /\ ~Authenticated(req[s]) =>
            /\ pc[s] \in {"Received", "Responded"}
            /\ Sent(s) => resp[s].status = 401 /\ resp[s].code = -32001
            /\ sessions = before[s]

\* C13: for an authenticated POST / the framing errors are decided before
\* notification handling, initialize and the session lookup: a body that is
\* not JSON is answered -32700 with HTTP 400 and an envelope whose jsonrpc
\* is not "2.0" is answered -32600 with HTTP 400, whatever the method, the
\* id and the mcp-session-id header, and the store is unchanged.
C13_FramingErrorsFirst ==
    \A s \in Slots :
        Sent(s) /\ Authenticated(req[s]) /\ req[s].httpMethod = "POST" =>
            /\ req[s].bodyKind = "malformed" =>
                   /\ resp[s] = JsonRpcError(400, -32700, None)
                   /\ sessions = before[s]
            /\ req[s].bodyKind = "object" /\ req[s].jsonrpc # "2.0" =>
                   /\ resp[s].status = 400 /\ resp[s].body = "jsonrpc_error"
                   /\ resp[s].code \in {-32700, -32600}
                   /\ req[s].is_json =>
                          resp[s] = JsonRpcError(400, -32600, EnvelopeGet(req[s].id))
                   /\ sessions = before[s]

\* C14: when a tools/list or tools/call on session s races with the DELETE
\* of s, the POST ends with a success result whose mcp-session-id header is
\* s or with -32000 and never with a fault, having resolved only a session
\* that was really stored; the DELETE ends with 204; once both have
\* answered, s is not in the store.
C14_PostRacingDelete ==
    \A p \in Slots :
        ( /\ req[p].httpMethod = "POST" /\ Authenticated(req[p])
          /\ req[p].method \in {"tools/list", "tools/call"} ) =>
            /\ pc[p] \in {"SessionResolved", "MethodInvoked"} => req[p].sid \in Created
            /\ Sent(p) =>
                   \/ /\ resp[p].status = 200 /\ resp[p].body = "jsonrpc_result"
                      /\ resp[p].session_hdr = req[p].sid
                      /\ resp[p].id = req[p].id
                      /\ req[p].sid \in Created
                   \/ resp[p] = JsonRpcError(400, -32000, req[p].id)
            /\ \A d \in Slots :
                   req[d].httpMethod = "DELETE" /\ req[d].sid = req[p].sid /\ Sent(d) =>
                       /\ resp[d].status = 204 /\ resp[d].body = ""
                       /\ Sent(p) => req[p].sid \notin DOMAIN sessions

\* C14 witness: the DELETE removed the session and answered 204 between the
\* POST's session check and the POST's response
C14_Witness ==
    \E p, d \in Slots :
        /\ req[p].method = "tools/call" /\ pc[p] = "MethodInvoked"
        /\ resp[p].session_hdr = req[p].sid
        /\ req[d].httpMethod = "DELETE" /\ req[d].sid = req[p].sid
        /\ Sent(d) /\ resp[d].status = 204
        /\ req[p].sid \notin DOMAIN sessions

\* C15: a failure raised while an authenticated, well-framed,
\* non-notification POST is handled (initialize, or tools/call on a valid
\* session) is answered -32603 with HTTP 500 and the request's id, and the
\* store, the session named in the request included, is unchanged.
C15_HandlerFailureIsMinus32603 ==
    \A s \in Slots :
        ( /\ Sent(s) /\ Authenticated(req[s]) /\ Envelope20(req[s])
          /\ EnvelopeGet(req[s].id) # None
          /\ req[s].method = "initialize" \/ req[s].sid \in DOMAIN before[s]
          /\ Raises(req[s]) ) =>
            /\ resp[s] = JsonRpcError(500, -32603, req[s].id)
            /\ sessions = before[s]

\* C16: for an authenticated, well-framed POST with a non-null id and a
\* valid session, a method other than initialize, tools/list and tools/call
\* is answered -32601 with HTTP 400 and the request id, and tools/list
\* answers the same two tools, add and multiply, whatever the session holds
\* and whatever came before.
C16_UnknownMethodAndStaticTools ==
    \A s \in Slots :
        ( /\ Sent(s) /\ Authenticated(req[s]) /\ Envelope20(req[s])
          /\ EnvelopeGet(req[s].id) # None
          /\ req[s].sid \in DOMAIN before[s] ) =>
            /\ req[s].method \notin {"initialize", "tools/list", "tools/call"} =>
                   resp[s] = JsonRpcError(400, -32601, req[s].id)
            /\ req[s].method = "tools/list" =>
                   /\ resp[s].status = 200 /\ resp[s].body = "jsonrpc_result"
                   /\ resp[s].id = req[s].id
                   /\ resp[s].result = [tag |-> "tools", tools |-> <<"add", "multiply">>]

\* C16 witness: tools/list answered on the second session, whose record
\* differs from the first one's
C16_Witness ==
    \E s \in Slots :
        /\ Sent(s) /\ req[s].method = "tools/list" /\ req[s].sid = 2
        /\ resp[s].body = "jsonrpc_result"
        /\ DOMAIN sessions = {1, 2} /\ sessions[1] # sessions[2]

\* C17: only a successful initialize, which adds exactly one new record,
\* and a DELETE answered 204, which removes exactly the named record,
\* change the store; tools/list, tools/call, notifications, GET and every
\* request answered with an error leave it unchanged; a record is never
\* modified after its creation, and every record has initialized = TRUE.
C17_OnlyInitializeAndDeleteChangeStore ==
    /\ \A k \in DOMAIN sessions : sessions[k].initialized = TRUE
    /\ \A s \in Slots :
           Sent(s) =>
               IF resp[s].result.tag = "initialize"
               THEN /\ resp[s].session_hdr \notin DOMAIN before[s]
                    /\ DOMAIN sessions = DOMAIN before[s] \cup {resp[s].session_hdr}
                    /\ \A k \in DOMAIN before[s] : sessions[k] = before[s][k]
               ELSE IF req[s].httpMethod = "DELETE" /\ resp[s].status = 204
               THEN /\ req[s].sid \in DOMAIN before[s]
                    /\ sessions = DeleteSession(before[s], req[s].sid)
               ELSE sessions = before[s]

C19_IdLessMessageTouchesNothing ==
    \A s \in Slots :
        /\ ( /\ Sent(s) /\ Authenticated(req[s]) /\ Envelope20(req[s])
             /\ EnvelopeGet(req[s].id) = None ) =>
               /\ resp[s] = Response(200, "empty_object", 0, None, NoResult,
                                     NoSessionHeader, NoChallenge)
               /\ sessions = before[s]
        /\ new_session_id[s] # NoSessionHeader =>
               /\ Authenticated(req[s]) /\ Envelope20(req[s])
               /\ req[s].method = "initialize" /\ EnvelopeGet(req[s].id) # None

\* C19 witness: an initialize with "id": null has been answered and no
\* session id was ever drawn
C19_Witness ==
    \E s \in Slots :
        /\ Sent(s) /\ Authenticated(req[s]) /\ Envelope20(req[s])
        /\ req[s].method = "initialize" /\ req[s].id = None
        /\ resp[s].status = 200 /\ uuidCalls = 0

\* C20: initialize ignores the mcp-session-id request header: whether the
\* header is absent, unknown or names a live session, a successful
\* initialize creates a session under a new id, the store grows by exactly
\* one, and the session the header names, like every other session, is
\* still there and unchanged.
C20_InitializeIgnoresSessionHeader ==
    \A s \in Slots :
        ( /\ Sent(s) /\ req[s].httpMethod = "POST" /\ req[s].method = "initialize"
          /\ resp[s].body = "jsonrpc_result" ) =>
            /\ resp[s].session_hdr \notin DOMAIN before[s]
            /\ resp[s].session_hdr \in DOMAIN sessions
            /\ Cardinality(DOMAIN sessions) = Cardinality(DOMAIN before[s]) + 1
            /\ \A k \in DOMAIN before[s] :
                   k \in DOMAIN sessions /\ sessions[k] = before[s][k]

\* C20 witness: a successful initialize that named a live session
C20_Witness ==
    \E s \in Slots :
        /\ Sent(s) /\ req[s].method = "initialize" /\ resp[s].body = "jsonrpc_result"
        /\ req[s].sid \in DOMAIN before[s]
        /\ req[s].sid \in DOMAIN sessions /\ resp[s].session_hdr # req[s].sid

====
